---- MODULE Spec2Model ----
(***************************************************************************)
(* Model of the pager `scroll` (src/src/app.rs, cmd.rs, term.rs).          *)
(*                                                                         *)
(* run() starts a key thread and a line thread that send events over a     *)
(* zero-capacity sync_channel to the consumer loop, which feeds them to    *)
(* State::update (append / handle_key, then draw).                         *)
(*                                                                         *)
(* Text is a sequence of characters; a line of the source is a text.       *)
(* Indices of `data` are 0-based in the code and 1-based in TLA+           *)
(* sequences: line i of the code is data[i + 1].                           *)
(***************************************************************************)
EXTENDS Integers, Sequences, FiniteSets, TLC

(* ---------------- bounds of the model ---------------- *)

\* longest source (number of items the line iterator yields before EOF)
MaxSource == 3
\* largest terminal height (rows)
MaxHeight == 3
\* terminal width (columns)
TermWidth == 2
\* longest search text the user types
MaxText == 1
\* number of lines the line thread collects before it sends a batch
\* (app.rs:23 sets 500; the model uses small batch sizes)
DATA_BUFFER_SIZE == 2

(* ---------------- program constants ---------------- *)

STATUS_BAR_HEIGHT == 1

(* ---------------- inputs ---------------- *)

\* the lines a source is made of
LineSet == { <<"n", "q">>, <<"q">> }


RECURSIVE SeqsUpTo(_, _)
SeqsUpTo(S, n) ==
  IF n = 0 THEN { <<>> }
  ELSE LET shorter == SeqsUpTo(S, n - 1)
       IN shorter \cup { Append(s, x) : s \in { t \in shorter : Len(t) = n - 1 }, x \in S }

\* the lines the source holds; a read of it may also fail
Sources == SeqsUpTo(LineSet, MaxSource)
\* terminal_size(): the terminal has at least one row and one column
Heights == 1 .. MaxHeight
Widths == { TermWidth }

\* keys the tty can deliver: Key::Char(c) for c in CharKeys, and named keys
CharKeys == { "n", "q", "/" }
Keys == CharKeys \cup { "Enter", "Backspace", "Ctrl-c", "Ctrl-d", "Ctrl-u",
                        "Down", "Up", "Home", "End" }

\* an item of tty.keys(): Ok(key) or Err(e); which key an Ok item holds has no
\* effect before handle_key sees it, and is drawn from Keys there
KeyOk == "Ok"
KeyErr == "Err"

\* characters whose UTF-8 encoding has two bytes; the tty delivers them as
\* Key::Char like any other character
WideChars == { "e_acute" }

\* char::len_utf8: the bytes a character takes in a String
len_utf8(c) == IF c \in WideChars THEN 2 ELSE 1

\* the io::Error values the two producers forward
KeyReadError == "tty read error"
LineReadError == "source read error"

(* ---------------- Option ---------------- *)

Some(x) == { x }
None == { }
unwrap_or(opt, d) == IF opt = { } THEN d ELSE CHOOSE x \in opt : TRUE

(* ---------------- Mode ---------------- *)

Viewing(opt) == [tag |-> "Viewing", text |-> opt]
Searching(t) == [tag |-> "Searching", text |-> Some(t)]
ModeText(m) == unwrap_or(m.text, <<>>)

(* ---------------- Cmd::from_key ---------------- *)

Scroll(dir, count) == [cmd |-> "Scroll", dir |-> dir, count |-> count, text |-> <<>>]
Plain(c) == [cmd |-> c, dir |-> "", count |-> 0, text |-> <<>>]
EnterText(c) == [cmd |-> "EnterText", dir |-> "", count |-> 0, text |-> <<c>>]

ViewCmd_from(key) ==
  CASE key \in { "q", "Ctrl-c" } -> Plain("Quit")
    [] key \in { "j", "Down" } -> Scroll("Down", 1)
    [] key \in { "k", "Up" } -> Scroll("Up", 1)
    [] key = "n" -> Plain("NextSearchResult")
    [] key \in { "g", "Home" } -> Scroll("Top", 0)
    [] key \in { "G", "End" } -> Scroll("Bottom", 0)
    [] key \in { "Ctrl-d", "PageDown" } -> Scroll("HalfPageDown", 0)
    [] key \in { "Ctrl-u", "PageUp" } -> Scroll("HalfPageUp", 0)
    [] key = "/" -> Plain("StartSearching")
    [] OTHER -> Plain("Noop")

SearchCmd_from(key) ==
  CASE key = "Enter" -> Plain("Confirm")
    [] key \in CharKeys \cup WideChars -> EnterText(key)
    [] key = "Backspace" -> Plain("RemoveChar")
    [] OTHER -> Plain("Noop")

\* variant: the key is always decoded as a viewing command
from_key_any_mode(mode, key) == ViewCmd_from(key)

from_key(mode, key) ==
  IF mode.tag = "Viewing" THEN ViewCmd_from(key) ELSE SearchCmd_from(key)

(* ---------------- State: scrolling ---------------- *)

Min(a, b) == IF a < b THEN a ELSE b
checked_sub_or_0(a, b) == IF a >= b THEN a - b ELSE 0

\* a State is a record [data, offset, dirty, mode, height, width]
max_offset(s) == checked_sub_or_0(Len(s.data), s.height) + STATUS_BAR_HEIGHT

\* update_offset(func), given the value func(self.offset)
update_offset(s, target) ==
  LET offset == Min(target, max_offset(s))
  IN IF offset # s.offset THEN [s EXCEPT !.offset = offset, !.dirty = TRUE] ELSE s

\* variant: Up moves by half the terminal height, whatever its count
scroll_up_half(s, dir, count) ==
  CASE dir = "Up" -> update_offset(s, checked_sub_or_0(s.offset, s.height \div 2))
    [] dir = "Down" -> update_offset(s, s.offset + count)
    [] dir = "HalfPageDown" -> update_offset(s, s.offset + (s.height \div 2))
    [] dir = "HalfPageUp" -> update_offset(s, checked_sub_or_0(s.offset, s.height \div 2))
    [] dir = "Top" -> update_offset(s, 0)
    [] dir = "Bottom" -> update_offset(s, Len(s.data))

scroll(s, dir, count) ==
  CASE dir = "Up" -> update_offset(s, checked_sub_or_0(s.offset, count))
    [] dir = "Down" -> update_offset(s, s.offset + count)
    [] dir = "HalfPageDown" -> update_offset(s, s.offset + (s.height \div 2))
    [] dir = "HalfPageUp" -> update_offset(s, checked_sub_or_0(s.offset, s.height \div 2))
    [] dir = "Top" -> update_offset(s, 0)
    [] dir = "Bottom" -> update_offset(s, Len(s.data))

(* ---------------- State: searching ---------------- *)

\* str::contains: literal substring
Contains(line, t) ==
  \E i \in 0 .. (Len(line) - Len(t)) : SubSeq(line, i + 1, i + Len(t)) = t

\* variant: the scan ignores starting_at and begins at the first line
Occurrences_from_start(data, t, starting_at) ==
  { i \in 0 .. (Len(data) - 1) : Contains(data[i + 1], t) }

\* indices (0-based) of the lines at or after starting_at that contain t
Occurrences(data, t, starting_at) ==
  { i \in starting_at .. (Len(data) - 1) : Contains(data[i + 1], t) }

SetMin(S) == CHOOSE x \in S : \A y \in S : x <= y

\* variant: the last matching line instead of the first
next_occurrence_offset_last(s, t, starting_at) ==
  LET occ == Occurrences(s.data, t, starting_at)
  IN IF occ = { } THEN None ELSE Some(CHOOSE x \in occ : \A y \in occ : y <= x)

next_occurrence_offset(s, t, starting_at) ==
  LET occ == Occurrences(s.data, t, starting_at)
  IN IF occ = { } THEN None ELSE Some(SetMin(occ))

(* ---------------- State::handle_key ---------------- *)

\* variant: Confirm searches for the input text even when it is empty
handle_key_confirm_any(s, key) ==
  LET c == from_key(s.mode, key)
      text == ModeText(s.mode)
      stay(t) == [state |-> t, quit |-> FALSE, panic |-> FALSE]
  IN IF s.mode.tag = "Viewing"
     THEN CASE c.cmd = "Quit" -> [state |-> s, quit |-> TRUE, panic |-> FALSE]
            [] c.cmd = "Scroll" -> stay(scroll(s, c.dir, c.count))
            [] c.cmd = "StartSearching" -> stay([s EXCEPT !.mode = Searching(<<>>)])
            [] c.cmd = "NextSearchResult" ->
                 IF s.mode.text # None
                 THEN stay([s EXCEPT !.dirty = TRUE,
                                     !.offset = unwrap_or(
                                        next_occurrence_offset(s, text, s.offset + 1),
                                        s.offset)])
                 ELSE stay(s)
            [] OTHER -> stay(s)
     ELSE CASE c.cmd = "EnterText" -> stay([s EXCEPT !.mode = Searching(text \o c.text)])
            [] c.cmd = "RemoveChar" ->
                 IF text # <<>>
                 THEN IF len_utf8(text[Len(text)]) = 1
                      THEN stay([s EXCEPT !.mode = Searching(SubSeq(text, 1, Len(text) - 1))])
                      ELSE [state |-> s, quit |-> FALSE, panic |-> TRUE]
                 ELSE stay(s)
            [] c.cmd = "Confirm" ->
                 stay([s EXCEPT !.dirty = TRUE,
                                !.offset = unwrap_or(
                                   next_occurrence_offset(s, text, s.offset),
                                   s.offset),
                                !.mode = Viewing(Some(text))])
            [] OTHER -> stay(s)

\* the state after handle_key and its return value (quit); the command is
\* decoded with the current mode, so the unreachable!() arm is never taken.
\* RemoveChar slices off the last byte, search_text[0..search_text.len() - 1]:
\* the slice panics when that index is inside a character of several bytes.
handle_key(s, key) ==
  LET c == from_key(s.mode, key)
      text == ModeText(s.mode)
      stay(t) == [state |-> t, quit |-> FALSE, panic |-> FALSE]
  IN IF s.mode.tag = "Viewing"
     THEN CASE c.cmd = "Quit" -> [state |-> s, quit |-> TRUE, panic |-> FALSE]
            [] c.cmd = "Scroll" -> stay(scroll(s, c.dir, c.count))
            [] c.cmd = "StartSearching" -> stay([s EXCEPT !.mode = Searching(<<>>)])
            [] c.cmd = "NextSearchResult" ->
                 IF s.mode.text # None
                 THEN stay([s EXCEPT !.dirty = TRUE,
                                     !.offset = unwrap_or(
                                        next_occurrence_offset(s, text, s.offset + 1),
                                        s.offset)])
                 ELSE stay(s)
            [] OTHER -> stay(s)
     ELSE CASE c.cmd = "EnterText" -> stay([s EXCEPT !.mode = Searching(text \o c.text)])
            [] c.cmd = "RemoveChar" ->
                 IF text # <<>>
                 THEN IF len_utf8(text[Len(text)]) = 1
                      THEN stay([s EXCEPT !.mode = Searching(SubSeq(text, 1, Len(text) - 1))])
                      ELSE [state |-> s, quit |-> FALSE, panic |-> TRUE]
                 ELSE stay(s)
            [] c.cmd = "Confirm" ->
                 IF text # <<>>
                 THEN stay([s EXCEPT !.dirty = TRUE,
                                     !.offset = unwrap_or(
                                        next_occurrence_offset(s, text, s.offset),
                                        s.offset),
                                     !.mode = Viewing(Some(text))])
                 ELSE stay([s EXCEPT !.dirty = TRUE, !.mode = Viewing(None)])
            [] OTHER -> stay(s)

(* ---------------- State::append ---------------- *)

\* variant: the batch is put in front of the buffer
append_front(s, batch) ==
  LET old_len == Len(s.data)
      grown == [s EXCEPT !.data = batch \o s.data]
  IN IF old_len + s.offset <= s.height - STATUS_BAR_HEIGHT
     THEN [grown EXCEPT !.dirty = TRUE]
     ELSE grown

append(s, batch) ==
  LET old_len == Len(s.data)
      grown == [s EXCEPT !.data = s.data \o batch]
  IN IF old_len + s.offset <= s.height - STATUS_BAR_HEIGHT
     THEN [grown EXCEPT !.dirty = TRUE]
     ELSE grown

(* ---------------- Term::write_line and State::draw_text ---------------- *)

\* escape sequences of termion: Bg(color::LightBlack) is ESC [ 4 8 ; 5 ; 8 m,
\* Bg(color::Reset) is ESC [ 4 9 m
BG == "BG"
RESET_BG == "RESET"

\* length in bytes of one element of a written string
ByteLen(tok) ==
  CASE tok = BG -> 9
    [] tok = RESET_BG -> 5
    [] OTHER -> len_utf8(tok)

RECURSIVE str_len(_)
str_len(str) == IF str = <<>> THEN 0 ELSE ByteLen(Head(str)) + str_len(Tail(str))

RECURSIVE repeat(_, _)
repeat(tok, n) == IF n <= 0 THEN <<>> ELSE <<tok>> \o repeat(tok, n - 1)

\* what write_line sends to the terminal for one row
write_line(str, width) ==
  LET len == str_len(str)
      count == width - (len % width)
  IN str \o repeat(" ", count) \o <<"\r\n">>

\* str::replace: every non-overlapping occurrence of pat, left to right
RECURSIVE replace(_, _, _)
replace(str, pat, to) ==
  IF Len(str) < Len(pat) THEN str
  ELSE IF SubSeq(str, 1, Len(pat)) = pat
       THEN to \o replace(SubSeq(str, Len(pat) + 1, Len(str)), pat, to)
       ELSE <<Head(str)>> \o replace(Tail(str), pat, to)

\* the row draw_text writes for one buffer line
text_row(s, line) ==
  IF s.mode.tag = "Viewing" /\ s.mode.text # None
  THEN LET search_text == ModeText(s.mode)
       IN write_line(replace(line, search_text, <<BG>> \o search_text \o <<RESET_BG>>),
                     s.width)
  ELSE write_line(line, s.width)

\* the rows draw_text writes, top to bottom
draw_text(s) ==
  LET rows == s.height - STATUS_BAR_HEIGHT
      line_count == Min(rows, checked_sub_or_0(Len(s.data), s.offset))
  IN [r \in 1 .. rows |->
        IF r <= line_count THEN text_row(s, s.data[s.offset + r])
        ELSE write_line(<<"~">>, s.width)]

(* ---------------- state ---------------- *)

VARIABLES
  \* State
  data, offset, dirty, mode,
  \* Term: dimensions and the text region last written
  height, width, screen,
  \* the terminal behind Term: cursor visibility; raw mode and alternate screen
  cursor, term_mode,
  \* line thread: the source, how far it is read, the batch, where the thread is
  source, src_pos, lines, line_pc,
  \* key thread: where it is and the item it is sending
  key_pc, key_ev,
  \* consumer loop: where it is, the event in hand, update's result, run's result
  rx_pc, event, quit, result

state_vars == <<data, offset, dirty, mode, height, width, screen, cursor, term_mode>>
line_vars == <<source, src_pos, lines, line_pc>>
key_vars == <<key_pc, key_ev>>
rx_vars == <<rx_pc, event, quit, result>>
vars == <<data, offset, dirty, mode, height, width, screen, cursor, term_mode,
          source, src_pos, lines, line_pc, key_pc, key_ev,
          rx_pc, event, quit, result>>

\* the State record of the current state
Self ==
  [data |-> data, offset |-> offset, dirty |-> dirty, mode |-> mode,
   height |-> height, width |-> width]

\* events on the channel: io::Result<Event>
MoreData(batch) == [type |-> "MoreData", lines |-> batch, key |-> "", err |-> ""]
KeyEvent(k) == [type |-> "Key", lines |-> <<>>, key |-> k, err |-> ""]
ErrEvent(e) == [type |-> "Err", lines |-> <<>>, key |-> "", err |-> e]
NoEvent == [type |-> "None", lines |-> <<>>, key |-> "", err |-> ""]

\* State::new, before its first draw
NewState(h, w) ==
  [data |-> <<>>, offset |-> 0, dirty |-> TRUE, mode |-> Viewing(None),
   height |-> h, width |-> w]

\* run() inside State::new: the State is built and Term::new has put the
\* terminal in raw mode on the alternate screen; nothing is drawn yet and no
\* thread is spawned
Init ==
  /\ height \in Heights
  /\ width \in Widths
  /\ data = <<>>
  /\ offset = 0
  /\ mode = Viewing(None)
  /\ screen = <<>>
  /\ dirty = TRUE
  /\ cursor = "shown"
  /\ term_mode = "raw"
  /\ source \in Sources
  /\ src_pos = 0
  /\ lines = <<>>
  /\ line_pc = "unspawned"
  /\ key_pc = "unspawned"
  /\ key_ev = ""
  /\ rx_pc = "new"
  /\ event = NoEvent
  /\ quit = FALSE
  /\ result = "running"

(* ---------------- leaving run(): the State is dropped ---------------- *)

\* Drop for Term shows the cursor; then the fields of Term are dropped:
\* AlternateScreen goes back to the main screen and RawTerminal restores the
\* terminal mode. The terminal is taken to accept these restoring writes.
DropTerm ==
  /\ cursor' = "shown"
  /\ term_mode' = "restored"

\* `state` goes out of scope: its buffer, offset and mode are gone, and with
\* its Term the text that was written on the alternate screen
DropState ==
  /\ data' = <<>>
  /\ offset' = 0
  /\ dirty' = FALSE
  /\ mode' = Viewing(None)
  /\ screen' = <<>>
  /\ DropTerm

\* variant: run() ends the process on the spot, nothing is dropped
Return_exit(res) ==
  /\ rx_pc' = "done"
  /\ result' = res
  /\ UNCHANGED <<data, offset, dirty, mode, screen, cursor, term_mode>>

\* run() returns res (by `?`, or Ok(()) after the loop): its local `state`
\* goes out of scope and the receiver with it
Return(res) ==
  /\ rx_pc' = "done"
  /\ result' = res
  /\ DropState

(* ---------------- start-up ---------------- *)

\* the rest of State::new (hide_cursor, clear, draw) succeeds, get_tty
\* succeeds, both threads are spawned and the loop waits for an event
New ==
  /\ rx_pc = "new"
  /\ screen' = draw_text(Self)
  /\ dirty' = FALSE
  /\ cursor' = "hidden"
  /\ rx_pc' = "recv"
  /\ key_pc' = "read"
  /\ line_pc' = "next"
  /\ UNCHANGED <<data, offset, mode, height, width, term_mode,
                 source, src_pos, lines, key_ev, event, quit, result>>

\* a write of State::new's hide_cursor, clear or draw fails, or get_tty
\* fails: `?` returns the error from run() before any thread is spawned
NewErr ==
  /\ rx_pc = "new"
  /\ Return("Err")
  /\ UNCHANGED <<height, width, line_vars, key_vars, event, quit>>

(* ---------------- consumer loop: what taking an event does ---------------- *)

\* variant: the loop skips an Err item and waits for the next event
TakeErr_skipped(e) ==
  /\ event' = NoEvent
  /\ UNCHANGED <<rx_pc, result, quit, state_vars>>

\* `event?` on an Err(e): run returns the error e without calling update
TakeErr(e) ==
  /\ Return("Err")
  /\ event' = ErrEvent(e)
  /\ UNCHANGED <<quit, height, width>>

\* State::update, first half: Event::MoreData(data) => self.append(data)
TakeMoreData(batch) ==
  /\ LET s == append(Self, batch)
     IN /\ data' = s.data
        /\ dirty' = s.dirty
  /\ quit' = FALSE
  /\ event' = MoreData(batch)
  /\ rx_pc' = "draw"
  /\ UNCHANGED <<offset, mode, height, width, screen, cursor, term_mode, result>>

\* State::update, first half: Event::Key(key) => self.handle_key(key); a
\* panic of handle_key unwinds run(), which drops the State
TakeKey(k) ==
  LET r == handle_key(Self, k)
  IN /\ event' = KeyEvent(k)
     /\ IF r.panic
        THEN /\ Return("panic")
             /\ UNCHANGED quit
        ELSE /\ offset' = r.state.offset
             /\ dirty' = r.state.dirty
             /\ mode' = r.state.mode
             /\ quit' = r.quit
             /\ rx_pc' = "draw"
             /\ UNCHANGED <<data, screen, cursor, term_mode, result>>
     /\ UNCHANGED <<height, width>>

\* State::update, second half: self.draw() hides the cursor, rewrites the
\* text region when dirty, and shows the cursor again in Searching mode;
\* then the loop goes on, or breaks on quit and run() returns Ok(())
Draw ==
  /\ rx_pc = "draw"
  /\ IF quit
     THEN Return("Ok")
     ELSE /\ screen' = IF dirty THEN draw_text(Self) ELSE screen
          /\ dirty' = FALSE
          /\ rx_pc' = "recv"
          /\ cursor' = IF mode.tag = "Searching" THEN "shown" ELSE "hidden"
          /\ UNCHANGED <<data, offset, mode, term_mode, result>>
  /\ event' = NoEvent
  /\ UNCHANGED <<height, width, quit, line_vars, key_vars>>

\* a write or the flush of self.draw() fails: update returns the error and
\* `?` returns it from run()
DrawErr ==
  /\ rx_pc = "draw"
  /\ Return("Err")
  /\ event' = NoEvent
  /\ UNCHANGED <<height, width, quit, line_vars, key_vars>>

(* ---------------- key thread ---------------- *)

\* tty.keys() yields the next key or a read error
KeyRead ==
  /\ key_pc = "read"
  /\ key_ev' \in { KeyOk, KeyErr }
  /\ key_pc' = "send"
  /\ UNCHANGED <<state_vars, line_vars, rx_vars>>

\* tty.keys() ends: the thread returns
KeyEof ==
  /\ key_pc = "read"
  /\ key_pc' = "done"
  /\ UNCHANGED <<key_ev, state_vars, line_vars, rx_vars>>

\* typing is capped: a character that would make the search text longer
\* than MaxText is not delivered, and '/' is pressed only to start a search
TextFull(k) ==
  /\ mode.tag = "Searching"
  /\ k \in CharKeys
  /\ (Len(ModeText(mode)) >= MaxText \/ k = "/")

\* key_tx.send(..) meets the consumer's recv; the consumer handles the item
KeySend ==
  /\ key_pc = "send"
  /\ rx_pc = "recv"
  /\ IF key_ev = KeyErr
     THEN TakeErr(KeyReadError)
     ELSE \E k \in Keys : ~TextFull(k) /\ TakeKey(k)
  /\ key_pc' = "read"
  /\ key_ev' = ""
  /\ UNCHANGED line_vars

\* the receiver is gone: send fails and expect() panics
KeySendHungUp ==
  /\ key_pc = "send"
  /\ rx_pc = "done"
  /\ key_pc' = "panicked"
  /\ UNCHANGED <<key_ev, state_vars, line_vars, rx_vars>>

(* ---------------- line thread ---------------- *)

\* variant: the batch is sent one line late
AfterItem_late(batch) == IF Len(batch) > DATA_BUFFER_SIZE THEN "send_batch" ELSE "next"

\* where the loop body goes after the match on the item
AfterItem(batch) == IF Len(batch) >= DATA_BUFFER_SIZE THEN "send_batch" ELSE "next"

\* source.next() yields Ok(line): push it, then test the batch size
LineReadOk ==
  /\ line_pc = "next"
  /\ src_pos < Len(source)
  /\ src_pos' = src_pos + 1
  /\ lines' = Append(lines, source[src_pos + 1])
  /\ line_pc' = AfterItem(lines')
  /\ UNCHANGED <<source, state_vars, key_vars, rx_vars>>

\* source.next() yields Err(e): the read failed, with or without consuming
\* the line it was reading
LineReadErr ==
  /\ line_pc = "next"
  /\ \E used \in { 0, 1 } :
        /\ src_pos + used <= Len(source)
        /\ src_pos' = src_pos + used
  /\ line_pc' = "send_err"
  /\ UNCHANGED <<source, lines, state_vars, key_vars, rx_vars>>

\* the iterator is exhausted: leave the loop and send what is left
LineEof ==
  /\ line_pc = "next"
  /\ src_pos = Len(source)
  /\ line_pc' = "send_last"
  /\ UNCHANGED <<source, src_pos, lines, state_vars, key_vars, rx_vars>>

\* data_tx.send(Err(e)) meets the consumer's recv
LineSendErr ==
  /\ line_pc = "send_err"
  /\ rx_pc = "recv"
  /\ TakeErr(LineReadError)
  /\ line_pc' = AfterItem(lines)
  /\ UNCHANGED <<source, src_pos, lines, key_vars>>

\* send_data(&data_tx, lines) meets the consumer's recv; the batch is moved
LineSendData ==
  /\ line_pc \in { "send_batch", "send_last" }
  /\ rx_pc = "recv"
  /\ TakeMoreData(lines)
  /\ lines' = <<>>
  /\ line_pc' = IF line_pc = "send_batch" THEN "next" ELSE "done"
  /\ UNCHANGED <<source, src_pos, key_vars>>

\* the receiver is gone: send fails and expect() panics
LineSendHungUp ==
  /\ line_pc \in { "send_err", "send_batch", "send_last" }
  /\ rx_pc = "done"
  /\ line_pc' = "panicked"
  /\ UNCHANGED <<source, src_pos, lines, state_vars, key_vars, rx_vars>>

Next ==
  \/ KeyRead
  \/ KeyEof
  \/ KeySend
  \/ KeySendHungUp
  \/ LineReadOk
  \/ LineReadErr
  \/ LineEof
  \/ LineSendErr
  \/ LineSendData
  \/ LineSendHungUp
  \/ New
  \/ NewErr
  \/ Draw
  \/ DrawErr

Spec == Init /\ [][Next]_vars

(* ---------------- vocabulary of the properties ---------------- *)

\* number of visible text rows: terminal height minus the status row
ViewportRows == height - STATUS_BAR_HEIGHT

Max(a, b) == IF a > b THEN a ELSE b

\* a step in which State::update handles key k (handle_key has run, draw has not)
KeyHandled(k) ==
  /\ key_pc = "send" /\ key_ev = KeyOk
  /\ rx_pc = "recv" /\ rx_pc' = "draw"
  /\ key_pc' = "read"
  /\ event' = KeyEvent(k)

\* a step in which State::update handles a MoreData batch
BatchHandled ==
  /\ line_pc \in { "send_batch", "send_last" }
  /\ rx_pc = "recv" /\ rx_pc' = "draw"
  /\ line_pc' \in { "next", "done" }

ScrollKeys == { "Down", "Up", "Ctrl-d", "Ctrl-u", "Home", "End" }

\* the active term of Viewing mode, the input text of Searching mode
Text == ModeText(mode)

(* ---------------- C1 ---------------- *)

\* C1: in every reachable state the scroll offset lies between 0 and
\* max_offset(), the value the scroll commands clamp to.
C1_OffsetWithinMaxOffset == 0 <= offset /\ offset <= max_offset(Self)

(* ---------------- C2 ---------------- *)

\* C2: a scroll command issued while 0 <= offset <= max(0, L - H) leaves the
\* offset within 0 .. max(0, L - H), L the buffer length and H the number of
\* visible text rows; so from offset 0 every sequence of scroll commands stays
\* within that range, and the offset stays 0 while L < H.
C2_ScrollWithinBuffer ==
  [][ (\E k \in ScrollKeys : KeyHandled(k))
      /\ mode.tag = "Viewing"
      /\ offset <= Max(0, Len(data) - ViewportRows)
      => /\ 0 <= offset'
         /\ offset' <= Max(0, Len(data') - ViewportRows) ]_vars

(* ---------------- C3 .. C6: searching ---------------- *)

\* line i (0-based) of the buffer has t as a literal, case-sensitive substring
LineHas(buf, i, t) ==
  \E a \in 0 .. Len(buf[i + 1]), b \in 0 .. Len(buf[i + 1]) :
     /\ a + Len(t) = b
     /\ \A j \in 1 .. Len(t) : buf[i + 1][a + j] = t[j]

\* i is the smallest index from `from` on whose line has t
FirstFrom(buf, from, t, i) ==
  /\ i \in from .. (Len(buf) - 1)
  /\ LineHas(buf, i, t)
  /\ \A j \in from .. (i - 1) : ~LineHas(buf, j, t)

\* some line from `from` on has t
SomeFrom(buf, from, t) == \E i \in from .. (Len(buf) - 1) : LineHas(buf, i, t)

\* number of lines from `from` on that have t
CountFrom(buf, from, t) ==
  Cardinality({ i \in from .. (Len(buf) - 1) : LineHas(buf, i, t) })

\* Confirm (Enter) handled in Searching mode with a non-empty input text
ConfirmHandled ==
  /\ KeyHandled("Enter")
  /\ mode.tag = "Searching"
  /\ Text # <<>>

\* next match ('n') handled in Viewing mode
NextMatchHandled ==
  /\ KeyHandled("n")
  /\ mode.tag = "Viewing"

\* C3: Confirm with non-empty text T, some line at or after the offset
\* containing T: the offset becomes the smallest such index, the mode
\* becomes Viewing with active term T, and dirty is set.
C3_ConfirmFindsFirstFromOffset ==
  [][ ConfirmHandled /\ SomeFrom(data, offset, Text)
      => /\ FirstFrom(data, offset, Text, offset')
         /\ mode' = [tag |-> "Viewing", text |-> { Text }]
         /\ dirty' ]_vars

\* Confirm has just found its term on a line below the top of the buffer,
\* with an earlier line that has the term too
C3_Witness ==
  /\ rx_pc = "draw" /\ event = KeyEvent("Enter")
  /\ mode.tag = "Viewing" /\ mode.text # { }
  /\ dirty
  /\ offset > 0 /\ offset < Len(data)
  /\ LineHas(data, offset, Text)
  /\ \E j \in 0 .. (offset - 1) : LineHas(data, j, Text)

\* C4: Confirm with non-empty text T and no line at or after the offset
\* containing T: the offset is unchanged and the mode is Viewing with no
\* active term.
C4_ConfirmNotFoundNoTerm ==
  [][ ConfirmHandled /\ ~SomeFrom(data, offset, Text)
      => /\ offset' = offset
         /\ mode' = [tag |-> "Viewing", text |-> { }] ]_vars

\* C5: next match with active term T moves the offset to the smallest index
\* above it whose line contains T, or leaves it if there is none; it never
\* moves the offset backwards; with no active term it changes neither the
\* offset nor dirty.
C5_NextMatchForwardOnly ==
  [][ NextMatchHandled
      => /\ mode.text # { } /\ SomeFrom(data, offset + 1, Text)
              => FirstFrom(data, offset + 1, Text, offset')
         /\ mode.text # { } /\ ~SomeFrom(data, offset + 1, Text)
              => offset' = offset
         /\ offset' >= offset
         /\ mode.text = { } => offset' = offset /\ dirty' = dirty ]_vars

\* next match has just been handled with an active term, the offset is on a
\* matching line and an earlier line matches too (nothing wrapped around)
C5_Witness ==
  /\ rx_pc = "draw" /\ event = KeyEvent("n")
  /\ mode.tag = "Viewing" /\ mode.text # { }
  /\ dirty
  /\ offset > 0 /\ offset < Len(data)
  /\ LineHas(data, offset, Text)
  /\ LineHas(data, 0, Text)

\* C6: with the buffer fixed, every next match either moves the offset
\* strictly forward and lowers the number of matching lines after the offset,
\* or finds nothing and leaves the offset where it is; so after at most that
\* many steps next match finds nothing, and from then on the offset stays.
C6_NextMatchTerminates ==
  [][ NextMatchHandled /\ mode.text # { }
      => IF CountFrom(data, offset + 1, Text) > 0
         THEN /\ offset' > offset
              /\ CountFrom(data', offset' + 1, Text) < CountFrom(data, offset + 1, Text)
         ELSE /\ offset' = offset
              /\ CountFrom(data', offset' + 1, Text) = 0 ]_vars

\* next match has just been handled on the last matching line: nothing is
\* left after the offset
C6_Witness ==
  /\ rx_pc = "draw" /\ event = KeyEvent("n")
  /\ mode.tag = "Viewing" /\ mode.text # { }
  /\ offset > 0 /\ offset < Len(data)
  /\ LineHas(data, offset, Text)
  /\ CountFrom(data, offset + 1, Text) = 0
  /\ CountFrom(data, 0, Text) >= 2

(* ---------------- C7, C8: redrawing ---------------- *)

\* C7: after every State::update the text region on screen is what a full
\* redraw of the current state produces.
C7_ScreenIsCurrent ==
  rx_pc = "recv" => screen = draw_text(Self)

\* C8: handling MoreData changes neither offset nor mode, and does not set
\* dirty when the buffer already reached the end of the viewport before the
\* append.
C8_AppendOutsideViewport ==
  [][ BatchHandled
      => /\ offset' = offset
         /\ mode' = mode
         /\ Len(data) >= offset + ViewportRows => ~dirty' ]_vars

(* ---------------- C9, C10: the channel ---------------- *)

IsPrefix(a, b) == Len(a) <= Len(b) /\ \A i \in 1 .. Len(a) : a[i] = b[i]

Sending == { "send_err", "send_batch", "send_last" }

\* the consumer takes the item the key thread is sending
KeyItemTaken ==
  /\ rx_pc = "recv" /\ rx_pc' # "recv"
  /\ IF key_ev = KeyErr THEN event' = ErrEvent(KeyReadError) ELSE event'.type = "Key"

\* the consumer takes the item the line thread is sending
LineItemTaken ==
  /\ rx_pc = "recv" /\ rx_pc' # "recv"
  /\ event' = IF line_pc = "send_err" THEN ErrEvent(LineReadError) ELSE MoreData(lines)

\* C9: the consumer's buffer is always a prefix of the source's lines, while
\* the loop runs it only grows at its end, and until a read fails the buffer followed by the
\* line thread's batch is exactly what has been read; a key is handled only by
\* taking the one item the key thread is sending, which ends that send, and
\* the key thread reads its next key only after that.
C9_OrderPreserved ==
  /\ [](IsPrefix(data, source))
  /\ [](result = "running" /\ line_pc \notin { "send_err", "panicked" }
          => IsPrefix(data \o lines, source))
  /\ [][ rx_pc' # "done" => IsPrefix(data, data') ]_vars
  /\ [][ event' # event /\ event'.type = "Key"
         => /\ key_pc = "send" /\ key_pc' = "read"
            /\ key_ev = KeyOk /\ event'.key \in Keys
            /\ rx_pc = "recv" ]_vars
  /\ [][ key_pc = "send" /\ (key_pc' # "send" \/ key_ev' # key_ev)
         => (KeyItemTaken \/ (rx_pc = "done" /\ key_pc' = "panicked")) ]_vars
  /\ [][ key_pc # "send" /\ key_pc' = "send"
         => key_pc = "read" /\ event' = event ]_vars

\* a second batch has been appended, the consumer is handling a key, and the
\* key thread already holds the next key
C9_Witness ==
  /\ Len(data) > DATA_BUFFER_SIZE
  /\ rx_pc = "draw" /\ event.type = "Key"
  /\ key_pc = "send" /\ key_ev = KeyOk

\* C10: a send ends only by the consumer taking that very item (or by the
\* consumer being gone), the consumer takes an item only while it waits in
\* recv, and the line thread never holds more than DATA_BUFFER_SIZE lines: it
\* reads no further line while it holds a full batch.
C10_Rendezvous ==
  /\ [](Len(lines) <= DATA_BUFFER_SIZE)
  /\ [][ src_pos' # src_pos => Len(lines) < DATA_BUFFER_SIZE ]_vars
  /\ [][ (line_pc \in Sending) /\ (line_pc' \notin Sending)
         => (LineItemTaken \/ (rx_pc = "done" /\ line_pc' = "panicked")) ]_vars
  /\ [][ event' # event /\ event' # NoEvent => rx_pc = "recv" ]_vars

\* the line thread is blocked with a full batch and lines left in the
\* source, while the consumer is still busy with an earlier event
C10_Witness ==
  /\ line_pc = "send_batch"
  /\ Len(lines) = DATA_BUFFER_SIZE
  /\ src_pos < Len(source)
  /\ rx_pc = "draw"

(* ---------------- C11 .. C13: errors and the end of the loop ---------------- *)

\* a producer holds a failure event that it has not handed over yet
KeyErrPending == key_pc = "send" /\ key_ev = KeyErr
LineErrPending == line_pc = "send_err"

\* the consumer receives the error e and run() returns it right from its
\* wait for an event; State::update, which ends in a draw, is not called
ErrReturned(e) ==
  /\ rx_pc = "recv"
  /\ event' = ErrEvent(e)
  /\ rx_pc' = "done"
  /\ result' = "Err"
  /\ UNCHANGED quit

\* the consumer loop has ended and handles nothing
NothingHandled == UNCHANGED <<data, offset, dirty, mode, screen, rx_pc, event, quit, result>>

\* C11: a failed read of either producer becomes an Err event that stays with
\* its producer until the consumer loop receives it; on receiving it run()
\* returns that error without calling State::update, and no event is
\* handled afterwards.
C11_ErrEndsRun ==
  /\ [][ KeyErrPending /\ ~KeyErrPending'
         => ErrReturned(KeyReadError) \/ rx_pc = "done" ]_vars
  /\ [][ LineErrPending /\ ~LineErrPending'
         => ErrReturned(LineReadError) \/ rx_pc = "done" ]_vars
  /\ [][ (event'.type = "Err") /\ (event.type # "Err")
         => (KeyErrPending \/ LineErrPending) /\ result' = "Err" ]_vars
  /\ [][ rx_pc = "done" => NothingHandled ]_vars

C11_Witness ==
  /\ rx_pc = "done" /\ result = "Err"
  /\ event = ErrEvent(LineReadError)
  /\ src_pos > DATA_BUFFER_SIZE
  /\ KeyErrPending

\* C12: once the failure event of a producer has been handed over, that
\* producer reads nothing more from its source and attempts no further send.
C12_ProducerStopsAfterErr ==
  /\ [][ event = ErrEvent(LineReadError) => UNCHANGED <<src_pos, line_pc>> ]_vars
  /\ [][ event = ErrEvent(KeyReadError) => UNCHANGED <<key_pc, key_ev>> ]_vars

\* C13: run() returns Ok only after a quit; quit is returned only in Viewing
\* mode, for 'q' or Ctrl-c; in Searching mode no key makes quit true, 'q' is
\* appended to the input text, Ctrl-c changes nothing, and only Enter leaves
\* Searching; after the loop has ended no event is handled.
C13_QuitOnlyFromViewing ==
  /\ [][ result' = "Ok" /\ result # "Ok" => quit /\ rx_pc = "draw" ]_vars
  /\ [][ quit' /\ ~quit
         => /\ mode.tag = "Viewing"
            /\ (KeyHandled("q") \/ KeyHandled("Ctrl-c")) ]_vars
  /\ [][ mode.tag = "Searching" /\ (\E k \in Keys : KeyHandled(k))
         => /\ ~quit'
            /\ (mode'.tag # "Searching" => KeyHandled("Enter")) ]_vars
  /\ [][ mode.tag = "Searching" /\ KeyHandled("q")
         => mode' = Searching(Text \o <<"q">>) ]_vars
  /\ [][ mode.tag = "Searching" /\ KeyHandled("Ctrl-c") => mode' = mode ]_vars
  /\ [][ result = "Ok" => NothingHandled ]_vars

C13_Witness ==
  /\ rx_pc = "done" /\ result = "Ok"
  /\ event = NoEvent /\ quit
  /\ line_pc = "done" /\ src_pos > 0

(* ---------------- C14: the Term guard ---------------- *)

\* C14: the terminal stays acquired while run() runs, and on every path by
\* which run() ends (quit, an Err event, a failed draw in update, a failure
\* in State::new after Term::new) the Term guard is released in the step
\* that ends it: cursor shown, alternate screen left, raw mode restored.
C14_TermReleased ==
  /\ [](rx_pc # "done" => term_mode = "raw")
  /\ [](rx_pc = "done" => cursor = "shown" /\ term_mode = "restored")
  /\ [][ rx_pc # "done" /\ rx_pc' = "done"
         => result' \in { "Ok", "Err" } /\ term_mode' = "restored" ]_vars

\* run() has ended by a failed draw of an update, after the threads were spawned
C14_Witness ==
  /\ rx_pc = "done" /\ result = "Err"
  /\ event = NoEvent
  /\ key_pc # "unspawned"
  /\ cursor = "shown" /\ term_mode = "restored"

(* ---------------- C15, C16, C20: scroll commands ---------------- *)

\* the State of 25 lines on a terminal of height 10, at the top
Example25 ==
  [data |-> [i \in 1 .. 25 |-> <<"q">>], offset |-> 0, dirty |-> FALSE,
   mode |-> Viewing(None), height |-> 10, width |-> TermWidth]

\* C15: Top yields offset 0 and Bottom yields offset max_offset(), for every
\* buffer length and prior offset; with 25 lines and height 10 Bottom
\* yields 16.
C15_TopAndBottom ==
  /\ scroll(Example25, "Bottom", 0).offset = 16
  /\ [][ KeyHandled("Home") /\ mode.tag = "Viewing" => offset' = 0 ]_vars
  /\ [][ KeyHandled("End") /\ mode.tag = "Viewing"
         => offset' = max_offset(Self') ]_vars

\* C16: with 0 < offset < max_offset() and 1 <= n <= offset, Up(n) moves the
\* offset to offset - n and Down(n) right after it moves it back to where
\* it was; the Up and Down keys do so with n = 1.
C16_UpDownRoundTrip ==
  /\ [](0 < offset /\ offset < max_offset(Self)
        => \A n \in 1 .. offset :
              LET up == scroll(Self, "Up", n)
              IN /\ up.offset = offset - n
                 /\ scroll(up, "Down", n).offset = offset)
  /\ [][ KeyHandled("Up") /\ mode.tag = "Viewing"
         /\ 0 < offset /\ offset < max_offset(Self)
         => offset' = offset - 1 /\ offset' < max_offset(Self') ]_vars
  /\ [][ KeyHandled("Down") /\ mode.tag = "Viewing" /\ offset < max_offset(Self)
         => offset' = offset + 1 ]_vars

\* Down has moved the offset, unclamped, to a place from which Up(1) and
\* Up(2) are unclamped too
C16_Witness ==
  /\ rx_pc = "draw" /\ event = KeyEvent("Down")
  /\ dirty
  /\ 2 <= offset /\ offset < max_offset(Self)

\* C20: in every reachable state Down and HalfPageDown never decrease the
\* offset; Up and HalfPageUp never increase it and decrease it by at most
\* their step.
C20_ScrollDirection ==
  /\ [][ (KeyHandled("Down") \/ KeyHandled("Ctrl-d")) /\ mode.tag = "Viewing"
         => offset' >= offset ]_vars
  /\ [][ KeyHandled("Up") /\ mode.tag = "Viewing"
         => offset' <= offset /\ offset - offset' <= 1 ]_vars
  /\ [][ KeyHandled("Ctrl-u") /\ mode.tag = "Viewing"
         => offset' <= offset /\ offset - offset' <= height \div 2 ]_vars

(* ---------------- C17: Confirm with an empty text ---------------- *)

\* C17: Enter in Searching mode with an empty input text returns to Viewing
\* with no active term and leaves offset and buffer unchanged.
C17_EmptyConfirm ==
  [][ KeyHandled("Enter") /\ mode.tag = "Searching" /\ Text = <<>>
      => /\ mode' = Viewing(None)
         /\ offset' = offset
         /\ data' = data ]_vars

\* the empty Confirm was handled away from the top, while the highlight of
\* the term that was active before the search is still on screen
C17_Witness ==
  /\ rx_pc = "draw" /\ event = KeyEvent("Enter")
  /\ mode = Viewing(None)
  /\ dirty
  /\ offset > 0
  /\ \E r \in DOMAIN screen : \E j \in DOMAIN screen[r] : screen[r][j] = BG

(* ---------------- C18: typing and backspace in Searching mode ---------------- *)

\* longest search text typed in the run below
MaxInput == 2

\* a user who only searches: '/', characters of one and of two bytes,
\* Backspace and Enter
InputKeys == CharKeys \cup WideChars \cup { "Backspace", "Enter" }

\* typing is capped at MaxInput characters
InputFull(k) ==
  /\ mode.tag = "Searching"
  /\ k \in CharKeys \cup WideChars
  /\ Len(ModeText(mode)) >= MaxInput

\* key_tx.send(..) meets the consumer's recv, for a key of InputKeys
KeySendInput ==
  /\ key_pc = "send"
  /\ rx_pc = "recv"
  /\ IF key_ev = KeyErr
     THEN TakeErr(KeyReadError)
     ELSE \E k \in InputKeys : ~InputFull(k) /\ TakeKey(k)
  /\ key_pc' = "read"
  /\ key_ev' = ""
  /\ UNCHANGED line_vars

\* run() on an empty source
InitInput == Init /\ source = <<>>

NextInput ==
  \/ New
  \/ KeyRead
  \/ KeySendInput
  \/ LineEof
  \/ LineSendData
  \/ Draw

SearchInputSpec == InitInput /\ [][NextInput]_vars

\* the consumer takes a Backspace key while in Searching mode
BackspaceTaken ==
  /\ key_pc = "send" /\ key_ev = KeyOk
  /\ rx_pc = "recv"
  /\ mode.tag = "Searching"
  /\ event' = KeyEvent("Backspace")

\* C18: in Searching mode backspace never crashes and removes exactly the
\* last character: on the empty text it leaves text and mode as they are,
\* and for every text s and every character c that can be typed, of one
\* byte or more, EnterText(c) followed by backspace yields s again.
C18_BackspaceRemovesLast ==
  /\ [][ BackspaceTaken
         => /\ result' # "panic"
            /\ mode'.tag = "Searching"
            /\ Text = <<>> => mode' = mode
            /\ Text # <<>> => Text' = SubSeq(Text, 1, Len(Text) - 1) ]_vars
  /\ [](mode.tag = "Searching"
        => \A c \in CharKeys \cup WideChars :
              LET typed == handle_key(Self, c)
                  back == handle_key(typed.state, "Backspace")
              IN /\ ~typed.panic
                 /\ ~back.panic
                 /\ back.state.mode = mode)

(* ---------------- C19: Term::write_line ---------------- *)

\* what a written row holds before its line break
RowBody(row) == SubSeq(row, 1, Len(row) - 1)

\* the string a row was written from: the row without the blanks (no line
\* of the model holds a blank)
RowString(row) == SelectSeq(RowBody(row), LAMBDA tok : tok # " ")

\* C19: every row written for a string of length at most the width holds
\* exactly `width` characters before its line break.
C19_RowsPaddedToWidth ==
  \A r \in DOMAIN screen :
     str_len(RowString(screen[r])) <= width => Len(RowBody(screen[r])) = width

(* ---------------- C21: a source that stays open ---------------- *)

\* run() on a live source: `source` holds the lines that arrive before the
\* source pauses; it is not closed, so the iterator never ends and the line
\* thread's next read blocks (no LineEof); no read of the source fails, and
\* the tty stays open.
LiveNext ==
  \/ New
  \/ KeyRead
  \/ KeySend
  \/ LineReadOk
  \/ LineSendData
  \/ Draw

\* the main thread and the line thread are scheduled, a sender that is ready
\* again and again gets its rendezvous, and the user keeps pressing keys
LiveFairness ==
  /\ WF_vars(New)
  /\ WF_vars(Draw)
  /\ WF_vars(LineReadOk)
  /\ SF_vars(LineSendData)
  /\ WF_vars(KeyRead)
  /\ SF_vars(KeySend)

LiveSourceSpec == Init /\ [][LiveNext]_vars /\ LiveFairness

\* C21: every line the line thread has read is eventually in the consumer's
\* buffer unless the consumer loop ends, also when the source stays open and
\* pauses with fewer than DATA_BUFFER_SIZE lines read since the last batch.
C21_ReadLinesArrive ==
  \A i \in 1 .. MaxSource :
     (src_pos >= i) ~> (Len(data) >= i \/ rx_pc = "done")

====
